---- MODULE Spec2Model ----
(***************************************************************************)
(* gh-release-devpi: download the assets of the latest GitHub release into *)
(* a working directory and upload the package files found there to a devpi *)
(* index (src/gh_release_devpi/main.py).                                   *)
(*                                                                         *)
(* File names are sequences of one-character strings, file contents are    *)
(* sequences of chunks.  Three specifications share the variables:         *)
(*   Spec      one run of the `download` command;                          *)
(*   SpecFetch one call of download_asset / _requests_get_stream, with the *)
(*             number of attempts drawn from 1..MaxRetries;                *)
(*   SpecMeta  one call of extract_package_metadata on a bounded file name.*)
(***************************************************************************)
EXTENDS Integers, Sequences, FiniteSets

VARIABLES
    filename,         \* SpecMeta: the argument of extract_package_metadata
    metadata,         \* SpecMeta: its return value (NoMeta before the call)
    pc,               \* position in download() / download_asset() / _requests_get_stream()
    token,            \* download(): --token / GITHUB_PAT is set
    repo_name,        \* download(): --repo / GITHUB_REPO is set
    skip_upload,      \* download(): --skip-upload
    devpi_server,     \* download(): --devpi-server / DEVPI_SERVER is set
    dirExists,        \* the working directory exists
    dir,              \* its files: name -> [data, run]; run tells which invocation wrote the file
    assets,           \* list(latest_release.get_assets()): the asset names, in the host's order
    idx,              \* download(): index of the asset the loop is at
    max_retries,      \* _requests_get_stream: max_retries
    attempt,          \* _requests_get_stream: attempt
    last_exc,         \* _requests_get_stream: last_exc
    resp,             \* body of the response of the current attempt
    pos,              \* chunks of resp already written
    err,              \* download_asset: err, the value _requests_get_stream returned
    da,               \* what download_asset did: returned the path or raised
    failed_downloads, \* download(): failed_downloads
    package_files,    \* upload_to_devpi: package_files
    uidx,             \* upload_to_devpi: index of the file the loop is at
    success_count,    \* upload_to_devpi: success_count
    exit_code,        \* typer.Exit code of the command (NoExit while running)
    server,           \* the index: the files it stored
    \* history variables: they record what happened and guard nothing
    hist,             \* outcome of every attempt of the fetch in progress
    calls,            \* indexes of the assets download_asset was called for
    got,              \* per asset handled: the outcome of its download
    get_issued,       \* some GET request for an asset was issued
    posts,            \* the POST requests issued to the index, in order
    upload_called,    \* upload_to_devpi was called
    upload_error,     \* the file upload_to_devpi raised for (<<>>: none)
    clears,           \* times the working directory was removed and recreated
    listed,           \* get_assets() returned
    reason            \* why the command ended

\* "no value": no match of a pattern, no return value yet
NoMeta == [name |-> <<>>, version |-> <<>>]

----------------------------------------------------------------------------
(* Characters and the two regular expressions of extract_package_metadata. *)

NL == "\n"

Lower == {"a","b","c","d","e","f","g","h","i","j","k","l","m",
          "n","o","p","q","r","s","t","u","v","w","x","y","z"}

Upper == {"A","B","C","D","E","F","G","H","I","J","K","L","M",
          "N","O","P","Q","R","S","T","U","V","W","X","Y","Z"}

Digits == {"0","1","2","3","4","5","6","7","8","9"}

\* [a-zA-Z0-9_]
NameChars == Lower \cup Upper \cup Digits \cup {"_"}

\* [a-zA-Z0-9._]
VersionChars == NameChars \cup {"."}

\* s[p], or the empty string past either end
At(s, p) == IF p \in 1..Len(s) THEN s[p] ELSE ""

\* s[m..n] cut to the string
Slice(s, m, n) == [p \in 1..(IF n > Len(s) THEN 0 ELSE IF n < m THEN 0 ELSE n - m + 1) |-> s[m + p - 1]]

\* the literal lit stands in s at positions from..from+Len(lit)-1
HasLit(s, from, lit) == from + Len(lit) - 1 <= Len(s) /\ \A p \in 1..Len(lit) : s[from + p - 1] = lit[p]

\* `$` after position k: the end of the string, or just before a final newline
AtDollar(s, k) == k = Len(s) \/ (k = Len(s) - 1 /\ s[Len(s)] = NL)

\* os.path.basename: what follows the last "/"
basename(s) ==
    LET slashes == {p \in 1..Len(s) : s[p] = "/"}
        last == IF slashes = {} THEN 0 ELSE CHOOSE p \in slashes : \A q \in slashes : q <= p
    IN  Slice(s, last + 1, Len(s))

SetMax(S) == CHOOSE x \in S : \A y \in S : y <= x

SetMin(S) == CHOOSE x \in S : \A y \in S : x <= y

\* ^([a-zA-Z0-9_]+)-   : the positions i at which group 1 can end
NameEnds(s) == {i \in 1..Len(s) : (\A p \in 1..i : s[p] \in NameChars) /\ At(s, i + 1) = "-"}

\* ([0-9][a-zA-Z0-9._]*?) : the positions j at which group 2 can end, group 1 ending at i
VersionEnds(s, i) == {j \in (i + 2)..Len(s) : s[i + 2] \in Digits /\ \A p \in (i + 3)..j : s[p] \in VersionChars}

WhlExt == <<".", "w", "h", "l">>

\* -(.*?)\.whl$ after group 2 ending at j: `.` matches no newline
WheelTail(s, j) ==
    /\ At(s, j + 1) = "-"
    /\ \E k \in (j + 1)..Len(s) :
          /\ \A p \in (j + 2)..k : s[p] # NL
          /\ HasLit(s, k + 1, WhlExt)
          /\ AtDollar(s, k + 4)

SdistExts == {<<".","t","a","r",".","g","z">>, <<".","z","i","p">>,
              <<".","t","a","r",".","b","z","2">>, <<".","e","g","g">>}

\* \.(tar\.gz|zip|tar\.bz2|egg)$ after group 2 ending at j
SdistTail(s, j) == \E ext \in SdistExts : HasLit(s, j + 1, ext) /\ AtDollar(s, j + Len(ext))

\* The groups of the first match in backtracking order (group 1 greedy, group 2
\* lazy) of wheel_pattern (wheel) or sdist_pattern, or NoMeta when it does not match.
FirstMatch(s, wheel) ==
    LET Rest(j) == IF wheel THEN WheelTail(s, j) ELSE SdistTail(s, j)
        is == {i \in NameEnds(s) : \E j \in VersionEnds(s, i) : Rest(j)}
    IN  IF is = {} THEN NoMeta
        ELSE LET i == SetMax(is)
                 j == SetMin({jj \in VersionEnds(s, i) : Rest(jj)})
             IN  [name |-> Slice(s, 1, i), version |-> Slice(s, i + 2, j)]

Fallback == [name |-> <<"u","n","k","n","o","w","n">>, version |-> <<"0",".","0",".","0">>]

extract_package_metadata(fname) ==
    LET base == basename(fname)
        wheel == FirstMatch(base, TRUE)
        sdist == FirstMatch(base, FALSE)
    IN  IF wheel # NoMeta THEN wheel
        ELSE IF sdist # NoMeta THEN sdist
        ELSE Fallback

----------------------------------------------------------------------------
(* Bounds and inputs.                                                      *)

MaxStem == 4

MaxBody == 2

MaxAssets == 2

MaxRetries == 3

\* _requests_get_stream(..., max_retries: int = 2, ...)
DefaultMaxRetries == 2

SeqsUpTo(S, n) == UNION {[1..m -> S] : m \in 0..n}

\* the sequences that list every element of S once: scandir gives no order
Perms(S) == {q \in [1..Cardinality(S) -> S] : \A i, j \in 1..Cardinality(S) : i # j => q[i] # q[j]}

\* every chunk of a body is written the same way: bodies differ in their length
Chunks == {"x"}

\* the response bodies: sequences of chunks
Bodies == SeqsUpTo(Chunks, MaxBody)

WheelAsset == <<"a","-","1","-","x",".","w","h","l">>

SdistAsset == <<"b","-","2",".","z","i","p">>

PlainZipAsset == <<"d",".","z","i","p">>

NotesAsset == <<"n","o","t","e","s",".","m","d">>

\* the asset names a release may hold
AssetNames == {WheelAsset, SdistAsset, PlainZipAsset, NotesAsset}

\* a release's assets: the host gives every asset of a release its own name
AssetLists == {q \in SeqsUpTo(AssetNames, MaxAssets) : \A i, j \in 1..Len(q) : i # j => q[i] # q[j]}

\* exit_code while the command runs
NoExit == -1

NoExc == [kind |-> "None", attempt |-> 0]

NoCall == [kind |-> "None", value |-> <<>>]

----------------------------------------------------------------------------
(* The working directory.                                                  *)

EmptyDir == [n \in {} |-> [data |-> <<>>, run |-> "cur"]]

\* a file an earlier invocation left behind, under the name of a package asset
StaleDir == [n \in {SdistAsset} |-> [data |-> <<"x">>, run |-> "prev"]]

\* mutant: the directory is created when absent and never removed
KeptDir(d) == d

\* shutil.rmtree(dest_dir) then ensure_dir(dest_dir)
ClearedDir(d) == EmptyDir

\* mutant: open(dest_path, "ab"), which keeps what the file holds
OpenAppend(d, f) == [n \in DOMAIN d \cup {f} |-> IF n \in DOMAIN d THEN d[n] ELSE [data |-> <<>>, run |-> "cur"]]

\* open(dest_path, "wb"): creates the file or truncates it
OpenWb(d, f) == [n \in DOMAIN d \cup {f} |-> IF n = f THEN [data |-> <<>>, run |-> "cur"] ELSE d[n]]

\* f.write(chunk)
WriteChunk(d, f, c) == [d EXCEPT ![f].data = Append(@, c)]

EndsWith(n, ext) == Len(n) >= Len(ext) /\ HasLit(n, Len(n) - Len(ext) + 1, ext)

\* for ext in ['*.whl', '*.tar.gz', '*.zip', '*.egg']
GlobExts == <<WhlExt, <<".","t","a","r",".","g","z">>, <<".","z","i","p">>, <<".","e","g","g">>>>

\* mutant: the pattern '*', without the extension
GlobAny(d, ext) == {n \in DOMAIN d : n[1] # "."}

\* glob.glob(os.path.join(artifacts_dir, '*' + ext)): `*` matches no leading dot
Glob(d, ext) == {n \in DOMAIN d : EndsWith(n, ext) /\ n[1] # "."}

\* the lists package_files can be: the four globs in order, each in any order
Discoveries(d) ==
    {a \o b \o c \o e : a \in Perms(Glob(d, GlobExts[1])), b \in Perms(Glob(d, GlobExts[2])),
                        c \in Perms(Glob(d, GlobExts[3])), e \in Perms(Glob(d, GlobExts[4]))}

\* compute_file_hash: the two digests of the file's content
compute_file_hash(data) == [md5 |-> <<"md5", data>>, sha256 |-> <<"sha256", data>>]

\* 'bdist_wheel' if filename.endswith('.whl') else 'sdist'
FileType(fname) == IF EndsWith(fname, WhlExt) THEN "bdist_wheel" ELSE "sdist"

\* the request upload_to_devpi builds for one file
UploadRequest(d, fname) ==
    LET m == extract_package_metadata(fname)
        h == compute_file_hash(d[fname].data)
    IN  [file |-> fname, content |-> d[fname].data, name |-> m.name, version |-> m.version,
         md5_digest |-> h.md5, sha256_digest |-> h.sha256, filetype |-> FileType(fname)]

----------------------------------------------------------------------------
(* download(): configuration, release, assets.                             *)

fetchVars == <<max_retries, attempt, last_exc, resp, pos, err, hist, get_issued>>

uploadVars == <<package_files, uidx, success_count, server, posts, upload_called, upload_error>>

configVars == <<token, repo_name, skip_upload, devpi_server>>

metaVars == <<filename, metadata>>

loopVars == <<assets, idx, da, failed_downloads, calls, got, listed>>

dirVars == <<dirExists, dir, clears>>

vars == <<metaVars, pc, configVars, dirVars, loopVars, fetchVars, uploadVars, exit_code, reason>>

\* raise typer.Exit(code=c)
Exit(c, why) == pc' = "done" /\ exit_code' = c /\ reason' = why

\* if not token: Exit(1); if not repo_name: Exit(1)
CheckConfig ==
    /\ pc = "start"
    /\ IF ~token THEN Exit(1, "no_token")
       ELSE IF ~repo_name THEN Exit(1, "no_repo")
       ELSE pc' = "get_repo" /\ UNCHANGED <<exit_code, reason>>
    /\ UNCHANGED <<metaVars, configVars, dirVars, loopVars, fetchVars, uploadVars>>

\* g.get_repo(repo_name): any error is caught at the top level and exits 1
GetRepo ==
    /\ pc = "get_repo"
    /\ \/ pc' = "get_release" /\ UNCHANGED <<exit_code, reason>>
       \/ Exit(1, "error")
    /\ UNCHANGED <<metaVars, configVars, dirVars, loopVars, fetchVars, uploadVars>>

\* repo.get_latest_release(): UnknownObjectException exits 1, as any other error
GetLatestRelease ==
    /\ pc = "get_release"
    /\ \/ pc' = "get_assets" /\ UNCHANGED <<exit_code, reason>>
       \/ Exit(1, "no_release")
       \/ Exit(1, "error")
    /\ UNCHANGED <<metaVars, configVars, dirVars, loopVars, fetchVars, uploadVars>>

\* mutant: the empty list is not told apart
NoAssetsNever(as) == FALSE

\* if not assets: raise typer.Exit(code=0)
NoAssets(as) == as = <<>>

\* assets = list(latest_release.get_assets())
GetAssets ==
    /\ pc = "get_assets"
    /\ \/ \E as \in AssetLists :
             /\ assets' = as
             /\ listed' = TRUE
             /\ IF NoAssets(as) THEN Exit(0, "no_assets")
                ELSE pc' = "clear" /\ UNCHANGED <<exit_code, reason>>
       \/ Exit(1, "error") /\ UNCHANGED <<assets, listed>>
    /\ UNCHANGED <<metaVars, configVars, dirVars, idx, da, failed_downloads, calls, got, fetchVars, uploadVars>>

\* clear_artifacts_dir(artifacts_dir); failed_downloads = []
ClearArtifactsDir ==
    /\ pc = "clear"
    /\ \/ /\ dir' = ClearedDir(dir)
          /\ dirExists' = TRUE
          /\ clears' = clears + 1
          /\ failed_downloads' = <<>>
          /\ idx' = 1
          /\ pc' = "loop"
          /\ UNCHANGED <<exit_code, reason>>
       \/ \* rmtree or makedirs raises
          /\ Exit(1, "error")
          /\ UNCHANGED <<dirVars, failed_downloads, idx>>
    /\ UNCHANGED <<metaVars, configVars, assets, da, calls, got, listed, fetchVars, uploadVars>>

----------------------------------------------------------------------------
(* download_asset() and _requests_get_stream().                            *)

\* filename = os.path.join(dest_dir, asset.name)
dest == assets[idx]

\* for a in assets: download_asset(a, ...): ensure_dir, then the fetch begins
DownloadAssetCall ==
    /\ pc = "loop"
    /\ idx <= Len(assets)
    /\ dirExists' = TRUE
    /\ dir' = IF dirExists THEN dir ELSE EmptyDir
    /\ calls' = Append(calls, idx)
    /\ attempt' = 1
    /\ last_exc' = NoExc
    /\ hist' = <<>>
    /\ pc' = "attempt"
    /\ UNCHANGED <<metaVars, configVars, clears, assets, idx, da, failed_downloads, got, listed,
                   max_retries, resp, pos, err, get_issued, uploadVars, exit_code, reason>>

\* for attempt in range(1, max_retries + 1): another attempt follows attempt a
MoreAttempts(a, m) == a < m

\* mutant: only the first error is kept
RememberFirst(old, exc) == IF old = NoExc THEN exc ELSE old

\* except Exception as exc: last_exc = exc
Remember(old, exc) == exc

\* except Exception as exc: last_exc = exc; time.sleep(0.5 * attempt); the next
\* attempt, or return last_exc after the last one.  The response is closed.
Except(kind) ==
    LET exc == [kind |-> kind, attempt |-> attempt] IN
    /\ last_exc' = Remember(last_exc, exc)
    /\ hist' = Append(hist, exc)
    /\ resp' = <<>> /\ pos' = 0
    /\ IF MoreAttempts(attempt, max_retries)
       THEN attempt' = attempt + 1 /\ pc' = "attempt" /\ err' = err
       ELSE attempt' = attempt /\ pc' = "fetch_done" /\ err' = last_exc'

\* requests.get(...); r.raise_for_status()
FetchGet ==
    /\ pc = "attempt"
    /\ get_issued' = TRUE
    /\ \/ Except("ConnectionError")
       \/ Except("HTTPError")
       \/ \E b \in Bodies :
             /\ resp' = b
             /\ pos' = 0
             /\ pc' = "open"
             /\ UNCHANGED <<attempt, last_exc, err, hist>>
    /\ UNCHANGED <<metaVars, configVars, dirVars, loopVars, max_retries, uploadVars, exit_code, reason>>

\* with open(dest_path, "wb") as f
FetchOpen ==
    /\ pc = "open"
    /\ \/ /\ dir' = OpenWb(dir, dest)
          /\ pc' = "write"
          /\ UNCHANGED <<attempt, last_exc, err, hist, resp, pos>>
       \/ Except("OSError") /\ UNCHANGED dir
    /\ UNCHANGED <<metaVars, configVars, dirExists, clears, loopVars, max_retries,
                   get_issued, uploadVars, exit_code, reason>>

\* for chunk in r.iter_content(chunk_size=8192): f.write(chunk)
FetchWrite ==
    /\ pc = "write"
    /\ pos < Len(resp)
    /\ dir' = WriteChunk(dir, dest, resp[pos + 1])
    /\ pos' = pos + 1
    /\ UNCHANGED <<metaVars, pc, configVars, dirExists, clears, loopVars, max_retries, attempt,
                   last_exc, resp, err, hist, get_issued, uploadVars, exit_code, reason>>

\* the stream or the write raises: what is written stays in the file
FetchBreak ==
    /\ pc = "write"
    /\ Except("ChunkedEncodingError")
    /\ UNCHANGED <<metaVars, configVars, dirVars, loopVars, max_retries,
                   get_issued, uploadVars, exit_code, reason>>

\* the body is written: return None  # success
FetchReturn ==
    /\ pc = "write"
    /\ pos = Len(resp)
    /\ hist' = Append(hist, [kind |-> "ok", attempt |-> attempt])
    /\ err' = NoExc
    /\ pc' = "fetch_done"
    /\ UNCHANGED <<metaVars, configVars, dirVars, loopVars, max_retries, attempt, last_exc, resp,
                   pos, get_issued, uploadVars, exit_code, reason>>

\* if err is None: return filename;  raise RuntimeError(f"Failed to download asset {asset.name}.")
\* The locals of _requests_get_stream end with the call.
DownloadAssetReturn ==
    /\ pc = "fetch_done"
    /\ da' = IF err = NoExc THEN [kind |-> "return", value |-> dest]
                            ELSE [kind |-> "raise", value |-> assets[idx]]
    /\ got' = Append(got, [name |-> assets[idx], ok |-> err = NoExc,
                           body |-> IF err = NoExc THEN resp ELSE <<>>])
    /\ attempt' = 0 /\ last_exc' = NoExc /\ resp' = <<>> /\ pos' = 0 /\ hist' = <<>>
    /\ pc' = "da_done"
    /\ UNCHANGED <<metaVars, configVars, dirVars, assets, idx, failed_downloads, calls, listed,
                   max_retries, err, get_issued, uploadVars, exit_code, reason>>

\* mutant: the failure is recorded and raised again, which ends the command
LoopHandleAbort ==
    /\ pc = "da_done"
    /\ failed_downloads' = IF da.kind = "raise" THEN Append(failed_downloads, assets[idx])
                                                 ELSE failed_downloads
    /\ da' = NoCall
    /\ err' = NoExc
    /\ IF da.kind = "raise"
       THEN pc' = "done" /\ exit_code' = 1 /\ reason' = "error" /\ idx' = idx
       ELSE pc' = "loop" /\ idx' = idx + 1 /\ UNCHANGED <<exit_code, reason>>
    /\ UNCHANGED <<metaVars, configVars, dirVars, assets, calls, got, listed, max_retries, attempt,
                   last_exc, resp, pos, hist, get_issued, uploadVars>>

\* try: saved = download_asset(...)  except Exception: failed_downloads.append(a.name)
LoopHandle ==
    /\ pc = "da_done"
    /\ failed_downloads' = IF da.kind = "raise" THEN Append(failed_downloads, assets[idx])
                                                 ELSE failed_downloads
    /\ idx' = idx + 1
    /\ da' = NoCall
    /\ err' = NoExc
    /\ pc' = "loop"
    /\ UNCHANGED <<metaVars, configVars, dirVars, assets, calls, got, listed, max_retries, attempt,
                   last_exc, resp, pos, hist, get_issued, uploadVars, exit_code, reason>>

----------------------------------------------------------------------------
(* After the loop: upload_to_devpi().                                      *)

\* if not skip_upload: upload_to_devpi(...)  else: skipped; the command ends
LoopEnd ==
    /\ pc = "loop"
    /\ idx > Len(assets)
    /\ IF skip_upload THEN Exit(0, "complete") /\ UNCHANGED upload_called
       ELSE pc' = "upload" /\ upload_called' = TRUE /\ UNCHANGED <<exit_code, reason>>
    /\ UNCHANGED <<metaVars, configVars, dirVars, loopVars, fetchVars, package_files, uidx,
                   success_count, server, posts, upload_error>>

\* if not devpi_server: raise;  package_files = the globs;  if not package_files: return
UploadStart ==
    /\ pc = "upload"
    /\ IF ~devpi_server
       THEN Exit(1, "upload_failed") /\ UNCHANGED <<package_files, uidx>>
       ELSE \E found \in Discoveries(dir) :
               /\ package_files' = found
               /\ uidx' = 1
               /\ IF found = <<>> THEN Exit(0, "complete")
                  ELSE pc' = "upload_file" /\ UNCHANGED <<exit_code, reason>>
    /\ UNCHANGED <<metaVars, configVars, dirVars, loopVars, fetchVars, success_count, server,
                   posts, upload_called, upload_error>>

\* mutant: the failure is noted and the loop goes on to the next file
UploadContinue(fname) ==
    /\ upload_error' = fname
    /\ uidx' = uidx + 1
    /\ UNCHANGED <<pc, exit_code, reason, success_count>>

\* the file raised for: the loop is left, download() exits 1
UploadRaise(fname) == Exit(1, "upload_failed") /\ upload_error' = fname /\ UNCHANGED <<uidx, success_count>>

\* for file_path in package_files: hash, POST, raise_for_status
UploadFile ==
    /\ pc = "upload_file"
    /\ uidx <= Len(package_files)
    /\ LET fname == package_files[uidx]
           req == UploadRequest(dir, fname)
       IN  \/ \* 2xx: the index stores the file
              /\ posts' = Append(posts, [req |-> req, status |-> "ok"])
              /\ server' = server \cup {[file |-> fname, content |-> req.content]}
              /\ success_count' = success_count + 1
              /\ uidx' = uidx + 1
              /\ UNCHANGED <<pc, exit_code, reason, upload_error>>
           \/ \* non-2xx: requests.exceptions.HTTPError
              /\ posts' = Append(posts, [req |-> req, status |-> "HTTPError"])
              /\ UploadRaise(fname)
              /\ UNCHANGED server
           \/ \* any other error: the request gets no response
              /\ posts' = Append(posts, [req |-> req, status |-> "ConnectionError"])
              /\ UploadRaise(fname)
              /\ UNCHANGED server
    /\ UNCHANGED <<metaVars, configVars, dirVars, loopVars, fetchVars, package_files, upload_called>>

\* the loop is through: upload_to_devpi returns, download() ends
UploadFinish ==
    /\ pc = "upload_file"
    /\ uidx > Len(package_files)
    /\ Exit(0, "complete")
    /\ UNCHANGED <<metaVars, configVars, dirVars, loopVars, fetchVars, uploadVars>>

----------------------------------------------------------------------------
(* Spec: one run of the download command.                                  *)

MetaIdle == filename = <<>> /\ metadata = NoMeta

RunIdle ==
    /\ idx = 1 /\ da = NoCall /\ failed_downloads = <<>>
    /\ calls = <<>> /\ got = <<>>
    /\ attempt = 0 /\ last_exc = NoExc /\ resp = <<>> /\ pos = 0 /\ err = NoExc
    /\ hist = <<>> /\ get_issued = FALSE
    /\ package_files = <<>> /\ uidx = 1 /\ success_count = 0 /\ server = {} /\ posts = <<>>
    /\ upload_called = FALSE /\ upload_error = <<>>
    /\ exit_code = NoExit /\ reason = "" /\ clears = 0

\* what the working directory can be before a run: absent, empty, or holding a stale file
PriorDir ==
    \/ dirExists = FALSE /\ dir = EmptyDir
    \/ dirExists = TRUE /\ dir \in {EmptyDir, StaleDir}

Init ==
    /\ MetaIdle
    /\ RunIdle
    /\ assets = <<>> /\ listed = FALSE
    /\ pc = "start"
    /\ token \in BOOLEAN /\ repo_name \in BOOLEAN
    /\ skip_upload \in BOOLEAN /\ devpi_server \in BOOLEAN
    /\ max_retries = DefaultMaxRetries
    /\ PriorDir

Next ==
    \/ CheckConfig \/ GetRepo \/ GetLatestRelease \/ GetAssets \/ ClearArtifactsDir
    \/ DownloadAssetCall \/ FetchGet \/ FetchOpen \/ FetchWrite \/ FetchBreak \/ FetchReturn
    \/ DownloadAssetReturn \/ LoopHandle \/ LoopEnd
    \/ UploadStart \/ UploadFile \/ UploadFinish

Spec == Init /\ [][Next]_vars

----------------------------------------------------------------------------
(* SpecFetch: one call of download_asset, for every max_retries >= 1.      *)

InitFetch ==
    /\ MetaIdle
    /\ RunIdle
    /\ assets \in {<<n>> : n \in AssetNames} /\ listed = TRUE
    /\ pc = "loop"
    /\ token = TRUE /\ repo_name = TRUE /\ skip_upload = FALSE /\ devpi_server = TRUE
    /\ max_retries \in 1..MaxRetries
    /\ PriorDir

NextFetch ==
    \/ DownloadAssetCall
    \/ FetchGet \/ FetchOpen \/ FetchWrite \/ FetchBreak \/ FetchReturn
    \/ DownloadAssetReturn

SpecFetch == InitFetch /\ [][NextFetch]_vars

----------------------------------------------------------------------------
(* SpecMeta: extract_package_metadata on every file name pre \o ext \o post. *)

StemChars == {"a", "1", "_", "-", ".", "/", NL}

Endings == {<<>>, WhlExt, <<".","m","d">>} \cup SdistExts

Filenames == {pre \o ext \o post : pre \in SeqsUpTo(StemChars, MaxStem), ext \in Endings,
                                   post \in SeqsUpTo(StemChars, 1)}

InitMeta ==
    /\ filename \in Filenames /\ metadata = NoMeta
    /\ RunIdle
    /\ assets = <<>> /\ listed = FALSE
    /\ pc = "meta"
    /\ token = TRUE /\ repo_name = TRUE /\ skip_upload = FALSE /\ devpi_server = TRUE
    /\ max_retries = DefaultMaxRetries
    /\ dirExists = FALSE /\ dir = EmptyDir

ExtractMetadata ==
    /\ pc = "meta"
    /\ metadata = NoMeta
    /\ metadata' = extract_package_metadata(filename)
    /\ UNCHANGED <<filename, pc, configVars, dirVars, loopVars, fetchVars, uploadVars, exit_code, reason>>

SpecMeta == InitMeta /\ [][ExtractMetadata]_vars
----------------------------------------------------------------------------
(* Properties.                                                             *)

Last(q) == q[Len(q)]

\* the download loop went through every asset
LoopDone == listed /\ assets # <<>> /\ idx = Len(assets) + 1

\* the names of the assets whose download failed, in the order of got
FailedNames(q) == LET F[k \in 0..Len(q)] ==
                          IF k = 0 THEN <<>>
                          ELSE IF q[k].ok THEN F[k - 1] ELSE Append(F[k - 1], q[k].name)
                  IN  F[Len(q)]

\* C1: when attempts 1..N-1 of a fetch fail (before the response, on the status,
\* or while the body is written) and attempt N <= max_retries succeeds, the fetch
\* returns success and the destination file holds exactly the body of attempt N.
C1_RetryLeavesLastBody ==
    /\ (hist # <<>> /\ Last(hist).kind = "ok") =>
          /\ pc = "fetch_done" /\ err = NoExc
          /\ dest \in DOMAIN dir
          /\ dir[dest].data = resp
    /\ (pc = "da_done" /\ da.kind = "return") =>
          /\ Last(got).ok
          /\ da.value \in DOMAIN dir
          /\ dir[da.value].data = Last(got).body

\* C1 witness: the third attempt succeeds after a failure inside the body and a
\* failure on the status
C1_Witness ==
    /\ pc = "fetch_done" /\ err = NoExc /\ max_retries = 3
    /\ Len(hist) = 3
    /\ hist[1].kind = "ChunkedEncodingError" /\ hist[2].kind = "HTTPError"
    /\ Len(resp) = 1 /\ dir[dest].data = resp

\* C2: a fetch makes at most max_retries attempts, none after a success, one
\* after every failure that is not the last; when all fail it returns the error
\* of the last attempt, and download_asset raises a failure naming the asset.
C2_AttemptsBoundedLastError ==
    /\ Len(hist) <= max_retries
    /\ \A i \in 1..Len(hist) : hist[i].attempt = i
    /\ \A i \in 1..(Len(hist) - 1) : hist[i].kind # "ok"
    /\ pc \in {"attempt", "open", "write"} => attempt = Len(hist) + 1 /\ attempt <= max_retries
    /\ pc = "fetch_done" =>
          /\ hist # <<>>
          /\ err = NoExc <=> Last(hist).kind = "ok"
          /\ err # NoExc => Len(hist) = max_retries /\ err = hist[max_retries]
    /\ pc = "da_done" =>
          /\ da.kind = "raise" <=> err # NoExc
          /\ da.kind = "return" <=> Last(got).ok
          /\ da.kind = "raise" => da.value = assets[idx]

\* C2 witness: three attempts fail in three ways and the last error is returned
C2_Witness ==
    /\ pc = "fetch_done" /\ max_retries = 3 /\ Len(hist) = 3
    /\ hist[1].kind = "HTTPError" /\ hist[2].kind = "ChunkedEncodingError"
    /\ hist[3].kind = "OSError"
    /\ err = hist[3]

\* C3: when the download of an asset fails for good, its name is in
\* failed_downloads, every asset is still attempted exactly once, every asset
\* whose download succeeds is in the directory, and upload_to_devpi is called
\* unless skip_upload is set: the failure never ends the run.
C3_DownloadFailureDoesNotAbort ==
    /\ \A i \in 1..Len(calls) : calls[i] = i
    /\ \A i \in 1..Len(got) : got[i].name = assets[i]
    /\ pc # "da_done" => failed_downloads = FailedNames(got)
    /\ (failed_downloads # <<>> /\ pc = "done") =>
          /\ Len(calls) = Len(assets)
          /\ Len(got) = Len(assets)
          /\ \A i \in 1..Len(got) :
                got[i].ok => got[i].name \in DOMAIN dir /\ dir[got[i].name].data = got[i].body
          /\ ~skip_upload => upload_called

\* C3 witness: the first of two assets fails, the second is downloaded and uploaded
C3_Witness ==
    /\ pc = "done" /\ Len(assets) = 2
    /\ failed_downloads = <<assets[1]>>
    /\ got[2].ok
    /\ \E i \in 1..Len(posts) : posts[i].req.file = assets[2] /\ posts[i].status = "ok"

\* the files the index accepted
Accepted == {[file |-> posts[i].req.file, content |-> posts[i].req.content] :
                i \in {k \in 1..Len(posts) : posts[k].status = "ok"}}

\* C4: files are submitted one at a time in discovery order; when the submission
\* of a file fails, no later file is submitted, the command exits 1, and the
\* files accepted before stay in the index.
C4_UploadStopsAtFirstFailure ==
    /\ Len(posts) <= Len(package_files)
    /\ \A i \in 1..Len(posts) : posts[i].req.file = package_files[i]
    /\ \A i \in 1..(Len(posts) - 1) : posts[i].status = "ok"
    /\ server = Accepted
    /\ (posts # <<>> /\ Last(posts).status # "ok") => upload_error = Last(posts).req.file
    /\ upload_error # <<>> =>
          /\ pc = "done" /\ exit_code = 1
          /\ upload_error = package_files[uidx]
          /\ Len(posts) = uidx
          /\ success_count = uidx - 1
          /\ Cardinality(server) = uidx - 1

\* C4 witness: the second of two files is refused, the first stays in the index
C4_Witness ==
    /\ Len(package_files) = 2 /\ Len(posts) = 2
    /\ posts[1].status = "ok" /\ posts[2].status = "HTTPError"
    /\ upload_error = package_files[2]
    /\ server = {[file |-> package_files[1], content |-> posts[1].req.content]}
    /\ exit_code = 1

\* C5: the working directory is removed and recreated once, before the first
\* asset of the run is written, so after the download loop it holds only files
\* written during the run.
C5_FreshWorkingDirectory ==
    /\ clears <= 1
    /\ (\E f \in DOMAIN dir : dir[f].run = "cur") => clears = 1
    /\ calls # <<>> => clears = 1
    /\ LoopDone => \A f \in DOMAIN dir : dir[f].run = "cur" /\ \E i \in 1..Len(assets) : assets[i] = f

\* C5 witness: after the loop the directory holds a file of the run
C5_Witness ==
    /\ LoopDone /\ pc = "done" /\ clears = 1
    /\ SdistAsset \in DOMAIN dir /\ dir[SdistAsset].run = "cur" /\ dir[SdistAsset].data = <<"x", "x">>

\* every asset downloaded and, unless skipped, every package file uploaded
FullSuccess ==
    /\ LoopDone /\ Len(got) = Len(assets)
    /\ \A i \in 1..Len(got) : got[i].ok
    /\ skip_upload \/ (upload_called /\ upload_error = <<>> /\ devpi_server)

\* the exit codes without the sentence on a download that failed for good
ExitCodeByReason ==
    pc = "done" =>
        /\ reason \in {"no_token", "no_repo", "no_release", "error", "upload_failed", "no_assets", "complete"}
        /\ reason \in {"no_assets", "complete"} => exit_code = 0
        /\ FullSuccess => reason = "complete"
        /\ reason \in {"no_token", "no_repo", "no_release", "error", "upload_failed"} => exit_code = 1

\* C6: the exit code is 0 on full success or when the release has no assets, 1
\* on a missing token or repository, on no release, on an upload error and on
\* any unexpected exception; and it reflects a download that failed for good.
C6_ExitCodeReflectsOutcome ==
    pc = "done" =>
        /\ reason = "no_assets" => exit_code = 0
        /\ FullSuccess => exit_code = 0
        /\ reason \in {"no_token", "no_repo", "no_release", "error", "upload_failed"} => exit_code = 1
        /\ failed_downloads # <<>> => exit_code # 0

\* name ends in one of the extensions upload_to_devpi looks for
HasPackageExt(n) == \E k \in 1..Len(GlobExts) : EndsWith(n, GlobExts[k])

IsName(q) == q # <<>> /\ \A k \in 1..Len(q) : q[k] \in NameChars

IsVersion(q) == q # <<>> /\ q[1] \in Digits /\ \A k \in 2..Len(q) : q[k] \in VersionChars

Dashes(q) == {k \in 1..Len(q) : q[k] = "-"}

\* name-version-remainder.whl, the remainder unconstrained
WheelForm(q) ==
    /\ Cardinality(Dashes(q)) >= 2
    /\ LET d1 == SetMin(Dashes(q))
           d2 == SetMin(Dashes(q) \ {d1})
       IN  /\ IsName(Slice(q, 1, d1 - 1))
           /\ IsVersion(Slice(q, d1 + 1, d2 - 1))
           /\ Len(q) >= d2 + Len(WhlExt)
           /\ EndsWith(q, WhlExt)

WheelParts(q) ==
    LET d1 == SetMin(Dashes(q))
        d2 == SetMin(Dashes(q) \ {d1})
    IN  [name |-> Slice(q, 1, d1 - 1), version |-> Slice(q, d1 + 1, d2 - 1)]

\* name-version.ext with ext one of tar.gz, zip, tar.bz2, egg
ArchiveForm(q) ==
    /\ Dashes(q) # {}
    /\ \E ext \in SdistExts :
          /\ EndsWith(q, ext)
          /\ IsName(Slice(q, 1, SetMin(Dashes(q)) - 1))
          /\ IsVersion(Slice(q, SetMin(Dashes(q)) + 1, Len(q) - Len(ext)))

ArchiveParts(q) ==
    LET ext == CHOOSE e \in SdistExts : EndsWith(q, e)
    IN  [name |-> Slice(q, 1, SetMin(Dashes(q)) - 1),
         version |-> Slice(q, SetMin(Dashes(q)) + 1, Len(q) - Len(ext))]

\* the metadata the two naming conventions give a directory-stripped file name
FormMeta(q) ==
    IF WheelForm(q) THEN WheelParts(q)
    ELSE IF ArchiveForm(q) THEN ArchiveParts(q)
    ELSE Fallback

Names(q) == {q[i] : i \in 1..Len(q)}

\* the directory holds one file per asset, named as the asset, with its bytes
OneFilePerAsset ==
    /\ DOMAIN dir = Names(assets)
    /\ \A i \in 1..Len(assets) : dir[assets[i]].data = got[i].body

\* one submission per file, with the name and version of the file's name
OneSubmissionPerFile ==
    /\ Len(posts) = Len(assets)
    /\ \A i \in 1..Len(assets) :
          \E k \in 1..Len(posts) :
             /\ posts[k].req.file = assets[i]
             /\ posts[k].req.content = got[i].body
             /\ posts[k].req.name = FormMeta(assets[i]).name
             /\ posts[k].req.version = FormMeta(assets[i]).version

AllDownloaded == LoopDone /\ Len(got) = Len(assets) /\ \A i \in 1..Len(got) : got[i].ok

AllPackageNames == \A i \in 1..Len(assets) : HasPackageExt(assets[i])

\* the upload step runs: it is not skipped and has a server to talk to
UploadRuns == ~skip_upload /\ devpi_server

C8_NoAssetsExitsZero ==
    (listed /\ assets = <<>>) =>
        /\ pc = "done" /\ exit_code = 0
        /\ ~get_issued /\ calls = <<>>
        /\ ~upload_called /\ posts = <<>>

\* C8 witness: a release without assets
C8_Witness == listed /\ assets = <<>> /\ pc = "done" /\ reason = "no_assets" /\ exit_code = 0

Stripped(q) == \A k \in 1..Len(q) : q[k] # "/"

\* C9: extract_package_metadata returns the name and version of a wheel-form or
\* archive-form file name, the wheel form first, and the fallback for every
\* other file name.
C9_MetadataByForm ==
    (pc = "meta" /\ metadata # NoMeta /\ Stripped(filename)) => metadata = FormMeta(filename)

\* the same for the file names that hold no newline
MetadataByFormOneLine ==
    (pc = "meta" /\ metadata # NoMeta /\ Stripped(filename) /\ \A k \in 1..Len(filename) : filename[k] # NL)
        => metadata = FormMeta(filename)

\* C10: every file the upload step submits, and every package file it found in
\* the directory, is the complete content of an asset whose download returned
\* success.
C10_OnlyCompleteDownloadsUploaded ==
    /\ \A k \in 1..Len(posts) :
          \E i \in 1..Len(got) :
             got[i].name = posts[k].req.file /\ got[i].ok /\ posts[k].req.content = got[i].body
    /\ (pc = "done" /\ upload_called /\ reason = "complete") =>
          \A k \in 1..Len(package_files) :
             \E i \in 1..Len(got) :
                /\ got[i].name = package_files[k] /\ got[i].ok
                /\ dir[package_files[k]].data = got[i].body
====
